---- MODULE Spec2Model ----
(***************************************************************************)
(* Discriminant derivation of src/src/create_discriminant.rs:              *)
(* random_bytes_from_seed (the seed expander) and create_discriminant      *)
(* (candidate construction, sieve, prime search).                          *)
(*                                                                         *)
(* The digest D is a type parameter of both functions; the model draws it  *)
(* from a family of deterministic fixed-output functions.  The constants   *)
(* table (M, RESIDUES, SIEVE_INFO) is generated at build time and included *)
(* from OUT_DIR; the model uses a table of the same shape over a smaller   *)
(* modulus, and a sieve window of SieveLen flags where the code has        *)
(* 1 << 16.  The widths of the integer types of the code are kept.         *)
(***************************************************************************)
EXTENDS Integers, Sequences, FiniteSets, TLC

\* ------------------------------------------------------------------ bounds
MaxLength == 14      \* lengths 0..MaxLength are explored
MaxSeedLen == 1      \* seeds are byte strings of at most this length
MaxKey == 7          \* digests of each output size, numbered 0..MaxKey
MaxByteCount == 7    \* byte counts of the direct calls of the expander
SieveLen == 8        \* flags of one sieve window (1 << 16 in the code)
WrapLead == 2        \* iterations before the 65536th at which InitWrap starts

\* --------------------------------------------------------- integer widths
U16 == 65536
AssertLimit == 32 * ((2^16) - 1)

RECURSIVE BitAnd(_, _)
BitAnd(a, b) ==
  IF a = 0 \/ b = 0 THEN 0
  ELSE (a % 2) * (b % 2) + 2 * BitAnd(a \div 2, b \div 2)

Shr(a, k) == a \div (2^k)

Shl(a, k) == a * (2^k)

RECURSIVE BitLen(_)
BitLen(x) == IF x = 0 THEN 0 ELSE 1 + BitLen(x \div 2)

\* ------------------------------------------------------------ the digest
SeedBytes == {0, 170}

RECURSIVE SeqsUpTo(_)
SeqsUpTo(k) ==
  IF k = 0 THEN {<<>>}
  ELSE LET shorter == SeqsUpTo(k - 1)
       IN shorter \cup {Append(s, b) : s \in {t \in shorter : Len(t) = k - 1}, b \in SeedBytes}

Seeds == SeqsUpTo(MaxSeedLen)

DigestSizes == {2, 32}

Digests == [size : DigestSizes, key : 0..MaxKey]

ShortDigests == [size : {1}, key : {0}]

RECURSIVE Absorb(_, _)
Absorb(input, h) ==
  IF input = <<>> THEN h
  ELSE Absorb(Tail(input), (h * 31 + Head(input) + 1) % 65521)

\* hasher.input(seed); hasher.input(&extra_bits); hasher.fixed_result()
Digest(d, input) ==
  LET h == Absorb(input, 1 + d.key * 257)
  IN [j \in 1..d.size |-> ((h + j) * (2 * j + 1) + (h \div 251)) % 256]

\* the counter encoded low byte first
ExtraBitsLittleEndian(x) == <<BitAnd(x, 255) % 256, Shr(BitAnd(x, 65280), 8) % 256>>

\* [((extra & 0xFF00) >> 8) as _, (extra & 0xFF) as _]
ExtraBits(x) == <<Shr(BitAnd(x, 65280), 8) % 256, BitAnd(x, 255) % 256>>

\* one block of the expansion: the digest of seed || extra_bits
Block(d, s, x) == Digest(d, s \o ExtraBits(x))

\* --------------------------------------------------------------- state
VARIABLES
  entry,       \* the function under call: "create_discriminant" or "random_bytes_from_seed"
  build,       \* "debug" (overflow checks and debug assertions on) or "release"
  digest,      \* the digest D the call is instantiated with
  seed,        \* the seed argument
  length,      \* the length argument (u16)
  pc,          \* position in the code
  fault,       \* the panic raised, "none" while there is none
  byte_count,  \* argument of random_bytes_from_seed
  blob,        \* its buffer
  extra,       \* its u16 counter
  hashes,      \* number of digests computed in this call of the expander (history)
  n,           \* the working big integer
  residue,     \* the selected residue
  branch,      \* branch of the residue adjustment taken (history)
  sieve,       \* the sieve window
  i,           \* index of the scan
  result,      \* the value returned
  n0,          \* n after the residue adjustment (history)
  windows,     \* windows exhausted so far (history)
  tested,      \* offsets j whose candidate n0 + M*j was primality-tested, in order (history)
  call,        \* 1 for the first call, 2 for the repeated one
  first        \* the value the first call returned

vars == <<entry, build, digest, seed, length, pc, fault, byte_count, blob, extra,
          hashes, n, residue, branch, sieve, i, result, n0, windows, tested, call, first>>

expanderVars == <<byte_count, blob, extra, hashes>>

searchVars == <<n, residue, branch, sieve, i, result, n0, windows, tested>>

callVars == <<entry, build, digest, seed, length, call, first>>

\* ------------------------------------------------ random_bytes_from_seed
\* a counter that outlives the call
CounterLeftOver == extra

\* let mut extra: u16 = 0
InitialCounter == 0

\* assert!(byte_count <= 32 * ((1 << 16) - 1)); blob = Vec::with_capacity; extra = 0
RandomBytesEntry ==
  /\ pc = "rb_entry"
  /\ IF byte_count <= AssertLimit
       THEN /\ blob' = <<>>
            /\ extra' = InitialCounter
            /\ hashes' = 0
            /\ pc' = "rb_loop"
            /\ fault' = fault
       ELSE /\ pc' = "panic"
            /\ fault' = "assert_byte_count"
            /\ UNCHANGED <<blob, extra, hashes>>
  /\ UNCHANGED <<byte_count, searchVars, callVars>>

\* extra += 1 on a u16: a panic with overflow checks, a wrap without
IncrementOverflows == extra + 1 >= U16

\* one iteration of while blob.len() < byte_count
HashStep ==
  /\ pc = "rb_loop"
  /\ Len(blob) < byte_count
  /\ blob' = blob \o Block(digest, seed, extra)
  /\ hashes' = hashes + 1
  /\ IF IncrementOverflows /\ build = "debug"
       THEN /\ pc' = "panic"
            /\ fault' = "counter_overflow"
            /\ extra' = extra
       ELSE /\ extra' = (extra + 1) % U16
            /\ UNCHANGED <<pc, fault>>
  /\ UNCHANGED <<byte_count, searchVars, callVars>>

\* blob.resize(byte_count, 0); blob
Resize ==
  /\ pc = "rb_loop"
  /\ Len(blob) >= byte_count
  /\ blob' = SubSeq(blob, 1, byte_count)
  /\ pc' = "rb_done"
  /\ UNCHANGED <<fault, byte_count, extra, hashes, searchVars, callVars>>

\* ------------------------------------------------- the constants table
\* include!(concat!(env!("OUT_DIR"), "/constants.rs")): a modulus that is a
\* multiple of 8, the residues 7 mod 8 below it that are coprime to it, and
\* for every odd prime p below the window length that does not divide the
\* modulus the pair (p, inverse of M modulo p).
M == 24

RESIDUES == <<7, 23>>

SIEVE_INFO == <<<<5, 4>>, <<7, 5>>>>

\* ------------------------------------------------ the big-integer type
RECURSIVE FromBytesAcc(_, _)
FromBytesAcc(bs, acc) ==
  IF bs = <<>> THEN acc ELSE FromBytesAcc(Tail(bs), acc * 256 + Head(bs))

\* T::from(&[u8]): the big-endian unsigned value
FromBytes(bs) == FromBytesAcc(bs, 0)

\* n.setbit(idx)
SetBit(x, idx) == IF (x \div (2^idx)) % 2 = 1 THEN x ELSE x + 2^idx

\* n.frem_u32(m): remainder of the floor division
Frem(x, m) == x - m * (x \div m)

\* n.crem_u16(p): magnitude of the remainder of the ceiling division
Crem(x, p) ==
  LET c == 0 - ((0 - x) \div p)
      r == x - c * p
  IN IF r < 0 THEN 0 - r ELSE r

\* n.probab_prime(2): exact on the integers of the model (trial division by
\* every d with d * d <= |n|)
ProbabPrime(x) ==
  LET a == IF x < 0 THEN 0 - x ELSE x
  IN /\ a >= 2
     /\ \A d \in 2..(2^((BitLen(a) + 1) \div 2)) : d * d > a \/ a % d # 0

\* the sign left as it is
NegDropped(x) == x

\* -n
Neg(x) == 0 - x

\* ------------------------------------------------- create_discriminant
\* ((usize::from(length) + 7) >> 3) + 2
RandomBytesLen(len) == Shr(len + 7, 3) + 2

\* lines 56-63: the byte count and the call of the expander
CreateEntry ==
  /\ pc = "start"
  /\ entry = "create_discriminant"
  /\ byte_count' = RandomBytesLen(length)
  /\ pc' = "rb_entry"
  /\ UNCHANGED <<fault, blob, extra, hashes, searchVars, callVars>>

\* (usize::from(last_2[0]) << 8) + usize::from(last_2[1])
Numerator(last_2) == Shl(last_2[1], 8) + last_2[2]

\* T::from(n) >> usize::from((8 - extra) & 7), extra = (length as u8) & 7
Shifted(bs, len) ==
  LET extra8 == BitAnd(len % 256, 7)
  IN Shr(FromBytes(bs), BitAnd(8 - extra8, 7))

\* RESIDUES[numerator % RESIDUES.len()]
SelectResidue(numerator) == RESIDUES[(numerator % Len(RESIDUES)) + 1]

\* lines 64-71: split the bytes, shift, select the residue
Build ==
  /\ pc = "rb_done"
  /\ entry = "create_discriminant"
  /\ LET random_bytes_len == byte_count
         lead == SubSeq(blob, 1, random_bytes_len - 2)
         last_2 == SubSeq(blob, random_bytes_len - 1, random_bytes_len)
     IN /\ n' = Shifted(lead, length)
        /\ residue' = SelectResidue(Numerator(last_2))
  /\ pc' = "setbit"
  /\ UNCHANGED <<fault, expanderVars, branch, sieve, i, result, n0, windows, tested, callVars>>

\* length - 1 on a u16
BitIndex(len) == (len - 1) % U16

\* lines 72-73: n.setbit(usize::from(length - 1)); debug_assert!(n >= 0)
ForceTopBit ==
  /\ pc = "setbit"
  /\ IF length = 0 /\ build = "debug"
       THEN /\ pc' = "panic"
            /\ fault' = "length_minus_one"
            /\ n' = n
       ELSE IF BitIndex(length) > MaxLength
       THEN /\ pc' = "capped"
            /\ UNCHANGED <<fault, n>>
       ELSE /\ n' = SetBit(n, BitIndex(length))
            /\ IF build = "debug" /\ n' < 0
                 THEN pc' = "panic" /\ fault' = "debug_assert"
                 ELSE pc' = "adjust" /\ fault' = fault
  /\ UNCHANGED <<expanderVars, residue, branch, sieve, i, result, n0, windows, tested, callVars>>

\* the residue added without taking the remainder off
AdjustedNoRem(x, res) == x + res

\* lines 77-81: move n into the residue class
Adjusted(x, res) ==
  LET rem == Frem(x, M)
  IN IF res > rem THEN x + (res - rem) ELSE x - (rem - res)

\* lines 74-82
Adjust ==
  /\ pc = "adjust"
  /\ n' = Adjusted(n, residue)
  /\ branch' = IF residue > Frem(n, M) THEN "add" ELSE "sub"
  /\ IF build = "debug" /\ n' < 0
       THEN pc' = "panic" /\ fault' = "debug_assert"
       ELSE pc' = "sieve" /\ fault' = fault
  /\ n0' = n'
  /\ windows' = 0
  /\ tested' = <<>>
  /\ UNCHANGED <<expanderVars, residue, sieve, i, result, callVars>>

\* vec![false; 1 << 16]
NoSieve == [k \in 0..(SieveLen - 1) |-> FALSE]

\* the start index taken from the floor remainder
SieveStartFloor(x, p, q) == (Frem(x, p) * q) % p

\* (n.crem_u16(p) as usize * q as usize) % p as usize
SieveStart(x, p, q) == (Crem(x, p) * q) % p

RECURSIVE Mark(_, _, _)
\* while i < sieve.len() { sieve[i] = true; i += p }
Mark(s, k, p) ==
  IF k < SieveLen THEN Mark([s EXCEPT ![k] = TRUE], k + p, p) ELSE s

RECURSIVE SieveFrom(_, _, _)
\* for &(p, q) in SIEVE_INFO.iter()
SieveFrom(s, k, x) ==
  IF k > Len(SIEVE_INFO) THEN s
  ELSE LET p == SIEVE_INFO[k][1]
           q == SIEVE_INFO[k][2]
       IN SieveFrom(Mark(s, SieveStart(x, p, q), p), k + 1, x)

\* lines 88-99: the sieve of the window based at x
BuildSieve(x) == SieveFrom(NoSieve, 1, x)

SieveStep ==
  /\ pc = "sieve"
  /\ sieve' = BuildSieve(n)
  /\ i' = 0
  /\ pc' = "scan"
  /\ UNCHANGED <<fault, expanderVars, n, residue, branch, result, n0, windows, tested, callVars>>

\* u64::from(M) * u64::from(i): a u32 times an index below the window length,
\* which a u64 holds
Offset(k) == M * k

\* lines 101-111: one index of the scan
ScanStep ==
  /\ pc = "scan"
  /\ i < SieveLen
  /\ IF sieve[i]
       THEN /\ i' = i + 1
            /\ UNCHANGED <<n, result, tested, pc>>
       ELSE /\ tested' = Append(tested, windows * SieveLen + i)
            /\ IF ProbabPrime(n + Offset(i))
                 THEN /\ n' = n + Offset(i)
                      /\ result' = Neg(n + Offset(i))
                      /\ pc' = "done"
                      /\ i' = i
                 ELSE /\ n' = (n + Offset(i)) - Offset(i)
                      /\ i' = i + 1
                      /\ UNCHANGED <<result, pc>>
  /\ UNCHANGED <<fault, expanderVars, residue, branch, sieve, n0, windows, callVars>>

\* a window advance one candidate short
WindowAdvanceShort == M * (SieveLen - 1)

\* (u64::from(M) * (1 << 16)) as u64
WindowAdvance == M * SieveLen

\* line 115: n = n + (u64::from(M) * (1 << 16)) as u64
NextWindow ==
  /\ pc = "scan"
  /\ i = SieveLen
  /\ n' = n + WindowAdvance
  /\ windows' = windows + 1
  /\ pc' = "sieve"
  /\ UNCHANGED <<fault, expanderVars, residue, branch, sieve, i, result, n0, tested, callVars>>

\* the caller calls again with the same arguments; nothing of the first call
\* is handed to the second
CallAgain ==
  /\ pc = "done"
  /\ call = 1
  /\ call' = 2
  /\ first' = result
  /\ pc' = "start"
  /\ UNCHANGED <<entry, build, digest, seed, length, fault, expanderVars, searchVars>>

\* ----------------------------------------------------- direct calls
InitLocals ==
  /\ fault = "none"
  /\ n = 0 /\ residue = 0 /\ branch = "none"
  /\ sieve = NoSieve /\ i = 0 /\ result = 0
  /\ n0 = 0 /\ windows = 0 /\ tested = <<>>
  /\ call = 1 /\ first = 0

\* the test module calls random_bytes_from_seed directly (check_random_bytes)
InitExpand ==
  /\ InitLocals
  /\ entry = "random_bytes_from_seed"
  /\ build \in {"debug", "release"}
  /\ digest \in Digests \cup ShortDigests
  /\ seed \in Seeds
  /\ length = 0
  /\ byte_count \in (0..MaxByteCount) \cup {AssertLimit + 1}
  /\ blob = <<>> /\ extra = 0 /\ hashes = 0
  /\ pc = "rb_entry"

NextExpand == RandomBytesEntry \/ HashStep \/ Resize

SpecExpand == InitExpand /\ [][NextExpand]_vars

\* A direct call with a one-byte digest and a byte count within the asserted
\* bound, taken up after WrapStart iterations of the loop: extra = WrapStart
\* and blob holds the blocks 0..WrapStart-1.
WrapStart == U16 - WrapLead

InitWrap ==
  /\ InitLocals
  /\ entry = "random_bytes_from_seed"
  /\ digest \in ShortDigests
  /\ seed \in Seeds
  /\ blob = [k \in 1..WrapStart |-> Block(digest, seed, k - 1)[1]]
  /\ build \in {"debug", "release"}
  /\ length = 0
  /\ byte_count \in WrapStart..(U16 + 4)
  /\ extra = WrapStart
  /\ hashes = WrapStart
  /\ pc = "rb_loop"

NextWrap == HashStep \/ Resize

SpecWrap == InitWrap /\ [][NextWrap]_vars

\* ------------------------------------------ calls of create_discriminant
Lengths == 0..MaxLength

Init ==
  /\ InitLocals
  /\ entry = "create_discriminant"
  /\ build \in {"debug", "release"}
  /\ digest \in Digests
  /\ seed \in Seeds
  /\ length \in Lengths
  /\ byte_count = 0
  /\ blob = <<>> /\ extra = 0 /\ hashes = 0
  /\ pc = "start"

Next ==
  \/ CreateEntry
  \/ RandomBytesEntry
  \/ HashStep
  \/ Resize
  \/ Build
  \/ ForceTopBit
  \/ Adjust
  \/ SieveStep
  \/ ScanStep
  \/ NextWindow
  \/ CallAgain

Spec == Init /\ [][Next]_vars

\* ------------------------------------------------------------ properties
Searching == pc \in {"sieve", "scan"}

Returned == pc = "done"

\* primality by definition: no divisor strictly between 1 and x
IsPrime(x) == x > 1 /\ \A d \in 2..(x - 1) : x % d # 0

Range(f) == {f[k] : k \in 1..Len(f)}

\* C1: create_discriminant never panics, for any seed and any length of the
\* 16-bit range, length = 0 included.
C1_NeverPanics == pc # "panic" /\ fault = "none"

\* C2: the magnitude of the value returned has bit length exactly length.
C2_BitLengthExact == Returned => BitLen(Neg(result)) = length

\* C3: after the adjustment n is congruent to the selected residue modulo M,
\* it stays in that class through the search, and the magnitude of the result
\* is 7 modulo 8.
C3_Congruence ==
  /\ (Searching \/ Returned) => n % M = residue /\ n0 % M = residue
  /\ Returned => Neg(result) % 8 = 7

C3_Witness == Returned /\ branch = "sub" /\ windows > 0 /\ n > n0

\* C4: n is non-negative after setbit and after the adjustment (neither debug
\* assertion fails), stays non-negative through the search, and the value
\* returned is the negation of a candidate that passed the primality test,
\* hence strictly negative.
C4_Negative ==
  /\ fault # "debug_assert"
  /\ pc \in {"adjust", "sieve", "scan", "done"} => n >= 0
  /\ Returned => result < 0 /\ result = 0 - n /\ ProbabPrime(n)

C4_Witness == Returned /\ branch = "sub" /\ length > 0 /\ result < 0

Be16(c) == <<c \div 256, c % 256>>

\* byte k (from 0) of H(seed || be16(0)) || H(seed || be16(1)) || ...
StreamByte(k) ==
  Digest(digest, seed \o Be16(k \div digest.size))[(k % digest.size) + 1]

\* C6: random_bytes_from_seed returns exactly byte_count bytes, the first
\* byte_count bytes of the concatenation of the digests of seed || be16(c) for
\* c = 0, 1, 2, ...; byte k of the result does not depend on byte_count, so a
\* shorter request returns a prefix, and byte_count = 0 returns no byte.
C6_Expansion ==
  pc = "rb_done" =>
    /\ Len(blob) = byte_count
    /\ \A k \in 1..byte_count : blob[k] = StreamByte(k - 1)

C6_Witness ==
  /\ pc = "rb_done"
  /\ hashes >= 3
  /\ byte_count > 0
  /\ byte_count < hashes * digest.size

\* C7: with byte_count within the asserted bound, the u16 counter never
\* overflows or wraps and no counter value is hashed twice, whatever the
\* output size of the digest.
C7_CounterNeverWraps ==
  byte_count <= AssertLimit =>
    /\ fault # "counter_overflow"
    /\ pc = "rb_loop" => extra = hashes
    /\ hashes <= U16

\* the start index of the reference: negate n, take the floor remainder
ReferenceStart(x, p, q) == (((0 - x) % p) * q) % p

\* C8: the window built for base n has flag true at index k exactly when a
\* prime of SIEVE_INFO divides n + M*k; for each pair the start index lies in
\* [0, p), is the first offset whose candidate p divides, and is the offset of
\* the reference.
C8_SieveExact ==
  pc = "scan" =>
    /\ n >= 0
    /\ \A k \in 0..(SieveLen - 1) :
         sieve[k] <=> \E e \in 1..Len(SIEVE_INFO) : (n + M * k) % SIEVE_INFO[e][1] = 0
    /\ \A e \in 1..Len(SIEVE_INFO) :
         LET p == SIEVE_INFO[e][1]
             q == SIEVE_INFO[e][2]
             start == SieveStart(n, p, q)
         IN /\ start \in 0..(p - 1)
            /\ (n + M * start) % p = 0
            /\ \A j \in 0..(start - 1) : (n + M * j) % p # 0
            /\ start = ReferenceStart(n, p, q)

C8_Witness ==
  /\ pc = "scan"
  /\ i > 0
  /\ sieve[0] /\ sieve[5] /\ ~sieve[1]
  /\ \E k \in 0..(SieveLen - 1) : sieve[k] /\ (n + M * k) % 7 = 0

\* base of window k and the flag of the offset j counted from n0
WindowBase(k) == n0 + k * M * SieveLen

FlagAt(j) == BuildSieve(WindowBase(j \div SieveLen))[j % SieveLen]

\* offsets whose index the scan has left behind
Scanned ==
  windows * SieveLen + (IF pc = "sieve" THEN 0 ELSE IF pc = "done" THEN i + 1 ELSE i)

\* C9: the search tests n0 + M*j in strictly increasing order of j, exactly
\* the offsets whose sieve flag is false; a failed test leaves the base as it
\* was; window k starts at n0 + k*M*window length; the function returns the
\* first candidate that passes.
C9_SearchOrder ==
  (Searching \/ Returned) =>
    /\ \A a, b \in 1..Len(tested) : a < b => tested[a] < tested[b]
    /\ \A j \in 0..(Scanned - 1) : (j \in Range(tested)) <=> ~FlagAt(j)
    /\ Range(tested) \subseteq 0..(Scanned - 1)
    /\ Searching => n = WindowBase(windows)
    /\ \A a \in 1..Len(tested) :
         ProbabPrime(n0 + M * tested[a]) <=> (Returned /\ a = Len(tested))
    /\ Returned =>
         /\ tested # <<>>
         /\ tested[Len(tested)] = windows * SieveLen + i
         /\ Neg(result) = n0 + M * tested[Len(tested)]

C9_Witness == Returned /\ windows > 0 /\ Len(tested) >= 3 /\ i > 0

\* C10: the magnitude returned is the smallest prime of the form n0 + M*x,
\* x >= 0: no smaller number of that form is prime.
C10_SmallestPrime ==
  Returned =>
    \A x \in 0..(windows * SieveLen + i) :
      IsPrime(n0 + M * x) => n0 + M * x >= Neg(result)
====
